---- MODULE Spec2Model ----
(***************************************************************************)
(* xESMF frontend (src/xesmf/frontend.py): the Regridder's weight-file     *)
(* lifecycle (build / reuse / overwrite / clean) and the application of    *)
(* the loaded weights to arrays and labelled arrays.                       *)
(*                                                                         *)
(* Python values are modelled as follows.                                  *)
(*   numpy array   [shape : Seq(Nat), data : Seq(Int)]  (row-major data)   *)
(*   dict / Dataset of coordinates  [lon, lat : array, bounds : BOOLEAN]   *)
(*                 (bounds: the keys lon_b and lat_b are present)          *)
(*   file system   a function from the names of existing files to their    *)
(*                 content                                                 *)
(*   exception     the field err of an operator's result ("none" = normal  *)
(*                 return)                                                 *)
(* backend.py and smm.py (imported at frontend.py:9-12) are modelled from   *)
(* the interfaces the design document gives for them (sections 4.1-4.4, 6).*)
(***************************************************************************)
EXTENDS Integers, Sequences, FiniteSets, TLC

VARIABLES scene, fs, rg, last

vars == <<scene, fs, rg, last>>

(* ------------------------------ bounds -------------------------------- *)

\* largest number of rows / columns of a horizontal grid
MaxN == 2
\* largest number of leading (extra) axes of an input array
MaxExtra == 2
\* largest size of a leading axis
MaxBatch == 2

(* --------------------------- numpy arrays ----------------------------- *)

RECURSIVE Prod(_)
Prod(s) == IF s = <<>> THEN 1 ELSE Head(s) * Prod(Tail(s))

ndim(a) == Len(a.shape)

size(a) == Prod(a.shape)

\* a[..., -2:] of a shape tuple: its last two entries (fewer when it is shorter)
Last2(s) == IF Len(s) <= 2 THEN s ELSE SubSeq(s, Len(s) - 1, Len(s))

\* s[0:-2] of a shape tuple
ButLast2(s) == IF Len(s) <= 2 THEN <<>> ELSE SubSeq(s, 1, Len(s) - 2)

\* arr.T : axes reversed; for a 2D array element (i, j) moves to (j, i)
Transpose(a) ==
    IF ndim(a) # 2 THEN a
    ELSE LET ny == a.shape[1]
             nx == a.shape[2]
         IN  [shape |-> <<nx, ny>>,
              data  |-> [k \in 1..(ny * nx) |->
                           a.data[(((k - 1) % ny)) * nx + ((k - 1) \div ny) + 1]]]

\* np.meshgrid(lon, lat) of two 1D arrays: both results have shape
\* (len(lat), len(lon)); lon varies along the last axis, lat along the first
meshgrid(lon, lat) ==
    LET nx == lon.shape[1]
        ny == lat.shape[1]
    IN  [lon |-> [shape |-> <<ny, nx>>,
                  data  |-> [k \in 1..(ny * nx) |-> lon.data[((k - 1) % nx) + 1]]],
         lat |-> [shape |-> <<ny, nx>>,
                  data  |-> [k \in 1..(ny * nx) |-> lat.data[((k - 1) \div nx) + 1]]]]

as_2d_mesh(lon, lat) ==
    IF ndim(lon) = 2 /\ ndim(lat) = 2
    THEN [err |-> "none", lon |-> lon, lat |-> lat]
    ELSE IF ndim(lon) = 1 /\ ndim(lat) = 1
    THEN [err |-> "none", lon |-> meshgrid(lon, lat).lon, lat |-> meshgrid(lon, lat).lat]
    ELSE [err |-> "ValueError", lon |-> lon, lat |-> lat]

(* ------------------- backend.py (the geometric engine) ---------------- *)

NoGrid == [shape |-> <<>>, lon |-> <<>>, lat |-> <<>>, periodic |-> FALSE, corners |-> FALSE]

\* build_grid(lon: 2D, lat: 2D, periodic): the engine's grid holds the
\* (transposed) coordinates it was given; periodic=None counts as false.
\* What the engine does with coordinates that are not 2D is not specified:
\* eng.grid = "strict" rejects them, "lenient" takes any two arrays of one shape
esmf_grid(lonT, latT, periodic, eng) ==
    IF /\ lonT.shape = latT.shape
       /\ eng.grid = "strict" => ndim(lonT) = 2
    THEN [err |-> "none",
          grid |-> [shape |-> lonT.shape, lon |-> lonT.data, lat |-> latT.data,
                    periodic |-> periodic, corners |-> FALSE]]
    ELSE [err |-> "ShapeError", grid |-> NoGrid]

add_corner(grid) == [grid EXCEPT !.corners = TRUE]

\* the weights the engine computes: one row per output cell, a deterministic
\* function of the method and of the two grids' sizes
MethodIndex(method) ==
    CASE method = "bilinear" -> 0
      [] method = "conservative" -> 1
      [] method = "patch" -> 2
      [] method = "nearest_s2d" -> 3
      [] OTHER -> 4

Weights(method, n_out, n_in) ==
    { <<i, ((i - 1 + MethodIndex(method)) % n_in) + 1, 1>> : i \in 1..n_out }
    \cup (IF method = "conservative" THEN { <<i, 1, 2>> : i \in 1..n_out } ELSE {})

\* a weight file: the triplets (row, col, S) with the matrix shape they were
\* computed for; complete = FALSE is a file a failed build left half-written
WeightFile(method, n_out, n_in) ==
    [n_rows |-> n_out, n_cols |-> n_in, trip |-> Weights(method, n_out, n_in),
     complete |-> TRUE]

PartialFile == [n_rows |-> 0, n_cols |-> 0, trip |-> {}, complete |-> FALSE]

\* compute_and_persist_weights(grid_in, grid_out, method, path); eng.build is
\* the engine's outcome: "ok", "fail" (nothing written) or "fail_partial"
esmf_regrid_build(grid_in, grid_out, method, filename, disk, eng) ==
    LET n_in  == Prod(grid_in.shape)
        n_out == Prod(grid_out.shape)
        put(c) == [f \in DOMAIN disk \cup {filename} |->
                     IF f = filename THEN c ELSE disk[f]]
    IN  IF method = "conservative" /\ ~(grid_in.corners /\ grid_out.corners)
        THEN [err |-> "ArtifactBuildError", fs |-> disk]
        ELSE IF eng.build = "ok"
        THEN [err |-> "none", fs |-> put(WeightFile(method, n_out, n_in))]
        ELSE IF eng.build = "fail_partial"
        THEN [err |-> "ArtifactBuildError", fs |-> put(PartialFile)]
        ELSE [err |-> "ArtifactBuildError", fs |-> disk]

(* -------------------- smm.py (sparse matrix tools) -------------------- *)

NoMatrix == [shape |-> <<0, 0>>, trip |-> {}]

\* load(path, n_in, n_out) -> SparseMatrix[n_out, n_in]
read_weights(filename, N_in, N_out, disk) ==
    IF filename \notin DOMAIN disk
    THEN [err |-> "IOError", A |-> NoMatrix]
    ELSE LET c == disk[filename]
         IN  IF ~c.complete \/ c.n_rows # N_out \/ c.n_cols # N_in
                \/ \E t \in c.trip : t[1] \notin 1..N_out \/ t[2] \notin 1..N_in
             THEN [err |-> "FormatError", A |-> NoMatrix]
             ELSE [err |-> "none", A |-> [shape |-> <<N_out, N_in>>, trip |-> c.trip]]

RECURSIVE SumSet(_)
SumSet(S) ==
    IF S = {} THEN 0
    ELSE LET t == CHOOSE u \in S : TRUE IN t[2] + SumSet(S \ {t})

\* one entry of A.dot(x): the sum of S * x[col] over the triplets of a row
RowDot(A, row, x) == SumSet({ <<t, t[3] * x[t[2]]>> : t \in { u \in A.trip : u[1] = row } })

\* apply(matrix, input_array, Ny_out, Nx_out): flatten the trailing two axes
\* and the leading axes, multiply by the matrix, reshape
apply_weights(A, indata, Ny_out, Nx_out) ==
    LET N_out == A.shape[1]
        N_in  == A.shape[2]
        extra_shape == ButLast2(indata.shape)
        B == Prod(extra_shape)
        flat(b) == [j \in 1..N_in |-> indata.data[(b - 1) * N_in + j]]
    IN  IF Prod(Last2(indata.shape)) # N_in \/ Ny_out * Nx_out # N_out
        THEN [err |-> "ValueError", out |-> [shape |-> <<>>, data |-> <<>>]]
        ELSE [err |-> "none",
              out |-> [shape |-> extra_shape \o <<Ny_out, Nx_out>>,
                       data  |-> [k \in 1..(B * N_out) |->
                                    RowDot(A, ((k - 1) % N_out) + 1,
                                           flat(((k - 1) \div N_out) + 1))]]]

(* --------------------------- frontend.py ------------------------------ *)

\* filename=None
NoneName == "<None>"

ds_to_ESMFgrid(ds, need_bounds, periodic, eng) ==
    LET g == esmf_grid(Transpose(ds.lon), Transpose(ds.lat), periodic, eng)
    IN  IF g.err # "none"
        THEN [err |-> g.err, grid |-> NoGrid, log |-> <<"esmf_grid">>]
        ELSE IF ~need_bounds
        THEN [err |-> "none", grid |-> g.grid, log |-> <<"esmf_grid">>]
        ELSE IF ~ds.bounds
        THEN [err |-> "KeyError", grid |-> NoGrid, log |-> <<"esmf_grid">>]
        ELSE [err |-> "none", grid |-> add_corner(g.grid),
              log |-> <<"esmf_grid", "add_corner">>]

\* the regridder before __init__ has set anything
NoRegridder ==
    [live |-> FALSE, _lon_out |-> [shape |-> <<>>, data |-> <<>>],
     _lat_out |-> [shape |-> <<>>, data |-> <<>>], need_bounds |-> FALSE,
     method |-> "", periodic |-> FALSE, reuse_weights |-> FALSE,
     _grid_in |-> NoGrid, _grid_out |-> NoGrid,
     Ny_in |-> 0, Nx_in |-> 0, Ny_out |-> 0, Nx_out |-> 0, N_in |-> 0, N_out |-> 0,
     filename |-> NoneName, A |-> NoMatrix]

\* str() of a bool
PyBool(b) == IF b THEN "True" ELSE "False"

\* _get_default_filename with the input grid's Ny and Nx in the wrong order
_get_default_filename_swapped(self) ==
    LET filename == self.method \o "_" \o ToString(self.Nx_in) \o "x" \o ToString(self.Ny_in)
                    \o "_" \o ToString(self.Ny_out) \o "x" \o ToString(self.Nx_out)
    IN  IF self.periodic THEN filename \o "_peri.nc" ELSE filename \o ".nc"

_get_default_filename(self) ==
    LET filename == self.method \o "_" \o ToString(self.Ny_in) \o "x" \o ToString(self.Nx_in)
                    \o "_" \o ToString(self.Ny_out) \o "x" \o ToString(self.Nx_out)
    IN  IF self.periodic THEN filename \o "_peri.nc" ELSE filename \o ".nc"

os_remove(disk, filename) == [f \in DOMAIN disk \ {filename} |-> disk[f]]

\* _write_weight_file without the reuse branch: an existing file is always
\* overwritten
_write_weight_file_no_reuse(self, disk, eng) ==
    LET exists == self.filename \in DOMAIN disk
        pre == IF exists
               THEN <<"os.path.exists", "print:Overwrite", "os.remove">>
               ELSE <<"os.path.exists", "print:Create">>
        disk1 == IF exists THEN os_remove(disk, self.filename) ELSE disk
        b == esmf_regrid_build(self._grid_in, self._grid_out, self.method,
                               self.filename, disk1, eng)
    IN  IF b.err # "none"
        THEN [err |-> b.err, fs |-> b.fs, log |-> pre \o <<"esmf_regrid_build">>]
        ELSE [err |-> "none", fs |-> b.fs,
              log |-> pre \o <<"esmf_regrid_build", "esmf_regrid_finalize">>]

\* _write_weight_file that builds over the existing file and does not remove it
_write_weight_file_no_remove(self, disk, eng) ==
    LET exists == self.filename \in DOMAIN disk
        pre == IF exists
               THEN <<"os.path.exists", "print:Overwrite">>
               ELSE <<"os.path.exists", "print:Create">>
        b == esmf_regrid_build(self._grid_in, self._grid_out, self.method,
                               self.filename, disk, eng)
    IN  IF exists /\ self.reuse_weights
        THEN [err |-> "none", fs |-> disk, log |-> <<"os.path.exists", "print:Reuse">>]
        ELSE IF b.err # "none"
        THEN [err |-> b.err, fs |-> b.fs, log |-> pre \o <<"esmf_regrid_build">>]
        ELSE [err |-> "none", fs |-> b.fs,
              log |-> pre \o <<"esmf_regrid_build", "esmf_regrid_finalize">>]

\* _write_weight_file that puts the old file back when the build fails
_write_weight_file_rollback(self, disk, eng) ==
    LET exists == self.filename \in DOMAIN disk
        pre == IF exists
               THEN <<"os.path.exists", "print:Overwrite", "os.remove">>
               ELSE <<"os.path.exists", "print:Create">>
        disk1 == IF exists THEN os_remove(disk, self.filename) ELSE disk
        b == esmf_regrid_build(self._grid_in, self._grid_out, self.method,
                               self.filename, disk1, eng)
    IN  IF exists /\ self.reuse_weights
        THEN [err |-> "none", fs |-> disk, log |-> <<"os.path.exists", "print:Reuse">>]
        ELSE IF b.err # "none"
        THEN [err |-> b.err, fs |-> disk, log |-> pre \o <<"esmf_regrid_build">>]
        ELSE [err |-> "none", fs |-> b.fs,
              log |-> pre \o <<"esmf_regrid_build", "esmf_regrid_finalize">>]

_write_weight_file(self, disk, eng) ==
    LET exists == self.filename \in DOMAIN disk
        pre == IF exists
               THEN <<"os.path.exists", "print:Overwrite", "os.remove">>
               ELSE <<"os.path.exists", "print:Create">>
        disk1 == IF exists THEN os_remove(disk, self.filename) ELSE disk
        b == esmf_regrid_build(self._grid_in, self._grid_out, self.method,
                               self.filename, disk1, eng)
    IN  IF exists /\ self.reuse_weights
        THEN [err |-> "none", fs |-> disk, log |-> <<"os.path.exists", "print:Reuse">>]
        ELSE IF b.err # "none"
        THEN [err |-> b.err, fs |-> b.fs, log |-> pre \o <<"esmf_regrid_build">>]
        ELSE [err |-> "none", fs |-> b.fs,
              log |-> pre \o <<"esmf_regrid_build", "esmf_regrid_finalize">>]

\* Regridder.__init__: the result holds the exception raised (err), the object
\* as far as it was set up, the file system afterwards and the calls made
Regridder(ds_in, ds_out, method, periodic, filename, reuse_weights, disk, eng) ==
    LET need_bounds == (method = "conservative")
        peri == IF method = "conservative" THEN FALSE ELSE periodic
        s1 == [NoRegridder EXCEPT !._lon_out = ds_out.lon, !._lat_out = ds_out.lat,
                                  !.need_bounds = need_bounds, !.method = method,
                                  !.periodic = peri, !.reuse_weights = reuse_weights]
        gi == ds_to_ESMFgrid(ds_in, need_bounds, peri, eng)
        go == ds_to_ESMFgrid(ds_out, need_bounds, FALSE, eng)
        s2 == [s1 EXCEPT !._grid_in = gi.grid, !._grid_out = go.grid]
        s3 == [s2 EXCEPT !.Ny_in = ds_in.lon.shape[1], !.Nx_in = ds_in.lon.shape[2],
                         !.Ny_out = ds_out.lon.shape[1], !.Nx_out = ds_out.lon.shape[2],
                         !.N_in = size(ds_in.lon), !.N_out = size(ds_out.lon)]
        s4 == [s3 EXCEPT !.filename = IF filename = NoneName
                                      THEN _get_default_filename(s3) ELSE filename]
        w  == _write_weight_file(s4, disk, eng)
        r  == read_weights(s4.filename, s4.N_in, s4.N_out, w.fs)
        glog == gi.log \o go.log
    IN  IF gi.err # "none"
        THEN [err |-> gi.err, rg |-> s1, fs |-> disk, log |-> gi.log]
        ELSE IF go.err # "none"
        THEN [err |-> go.err, rg |-> s1, fs |-> disk, log |-> glog]
        ELSE IF ndim(ds_in.lon) # 2 \/ ndim(ds_out.lon) # 2
        THEN [err |-> "ValueError", rg |-> s2, fs |-> disk, log |-> glog]
        ELSE IF w.err # "none"
        THEN [err |-> w.err, rg |-> s4, fs |-> w.fs, log |-> glog \o w.log]
        ELSE IF r.err # "none"
        THEN [err |-> r.err, rg |-> s4, fs |-> w.fs,
              log |-> glog \o w.log \o <<"read_weights">>]
        ELSE [err |-> "none", rg |-> [s4 EXCEPT !.A = r.A, !.live = TRUE], fs |-> w.fs,
              log |-> glog \o w.log \o <<"read_weights">>]

\* clean_weight_file that also drops the weights held in memory
clean_weight_file_drop_matrix(self, disk) ==
    IF self.filename \in DOMAIN disk
    THEN [err |-> "none", self |-> [self EXCEPT !.A = NoMatrix],
          fs |-> os_remove(disk, self.filename),
          log |-> <<"os.path.exists", "print:Remove", "os.remove", "print:StillUsable">>]
    ELSE [err |-> "none", self |-> self, fs |-> disk,
          log |-> <<"os.path.exists", "print:AlreadyRemoved">>]

clean_weight_file(self, disk) ==
    IF self.filename \in DOMAIN disk
    THEN [err |-> "none", self |-> self, fs |-> os_remove(disk, self.filename),
          log |-> <<"os.path.exists", "print:Remove", "os.remove", "print:StillUsable">>]
    ELSE [err |-> "none", self |-> self, fs |-> disk,
          log |-> <<"os.path.exists", "print:AlreadyRemoved">>]

PyTuple2(a, b) == "(" \o ToString(a) \o ", " \o ToString(b) \o ")"

__str__(self) ==
    "xESMF Regridder \n"
    \o "Regridding algorithm:       " \o self.method \o " \n"
    \o "Weight filename:            " \o self.filename \o " \n"
    \o "Reuse pre-computed weights? " \o PyBool(self.reuse_weights) \o " \n"
    \o "Input grid shape:           " \o PyTuple2(self.Ny_in, self.Nx_in) \o " \n"
    \o "Output grid shape:          " \o PyTuple2(self.Ny_out, self.Nx_out) \o " \n"
    \o "Periodic in longitude?      " \o PyBool(self.periodic)

__repr__(self) == __str__(self)

\* a Python value handed to, or returned by, the regridder: type is the
\* Python type; a DataArray also carries dims, name, coords and attrs
NoArray == [shape |-> <<>>, data |-> <<>>]

NoneValue == [type |-> "NoneType", values |-> NoArray, dims |-> <<>>, name |-> "",
              coords |-> <<>>, attrs |-> <<>>]

ndarray(a) == [NoneValue EXCEPT !.type = "ndarray", !.values = a]

SeqToSet(s) == { s[i] : i \in DOMAIN s }

\* regrid_numpy that clears the caller's array while working on it
regrid_numpy_inplace(self, indata) ==
    LET shape_horiz == Last2(indata.shape)
        o == apply_weights(self.A, indata, self.Ny_out, self.Nx_out)
        cleared == [indata EXCEPT !.data = [k \in DOMAIN indata.data |-> 0]]
    IN  IF shape_horiz # <<self.Ny_in, self.Nx_in>>
        THEN [err |-> "AssertionError", self |-> self, indata |-> indata, out |-> NoArray]
        ELSE [err |-> o.err, self |-> self, indata |-> cleared, out |-> o.out]

\* regrid_numpy that hands Nx_out and Ny_out over in the wrong order
regrid_numpy_swapped(self, indata) ==
    LET shape_horiz == Last2(indata.shape)
        o == apply_weights(self.A, indata, self.Nx_out, self.Ny_out)
    IN  IF shape_horiz # <<self.Ny_in, self.Nx_in>>
        THEN [err |-> "AssertionError", self |-> self, indata |-> indata, out |-> NoArray]
        ELSE [err |-> o.err, self |-> self, indata |-> indata, out |-> o.out]

\* regrid_numpy without the shape assertion
regrid_numpy_no_assert(self, indata) ==
    LET o == apply_weights(self.A, indata, self.Ny_out, self.Nx_out)
    IN  [err |-> o.err, self |-> self, indata |-> indata, out |-> o.out]

regrid_numpy(self, indata) ==
    LET shape_horiz == Last2(indata.shape)
        o == apply_weights(self.A, indata, self.Ny_out, self.Nx_out)
    IN  IF shape_horiz # <<self.Ny_in, self.Nx_in>>
        THEN [err |-> "AssertionError", self |-> self, indata |-> indata, out |-> NoArray]
        ELSE [err |-> o.err, self |-> self, indata |-> indata, out |-> o.out]

\* regrid_dataarray that keeps the input's own lon and lat coordinates
regrid_dataarray_input_coords(self, dr_in) ==
    LET o == regrid_numpy(self, dr_in.values)
        dim_names  == dr_in.dims
        extra_dims == ButLast2(dim_names)
    IN  IF o.err # "none"
        THEN [err |-> o.err, self |-> o.self, a |-> [dr_in EXCEPT !.values = o.indata],
              out |-> NoneValue]
        ELSE [err |-> "none", self |-> o.self, a |-> [dr_in EXCEPT !.values = o.indata],
              out |-> [type |-> "DataArray", values |-> o.out, dims |-> dim_names,
                       name |-> dr_in.name, coords |-> dr_in.coords,
                       attrs |-> [k \in {"regrid_method"} |-> self.method]]]

regrid_dataarray(self, dr_in) ==
    LET o == regrid_numpy(self, dr_in.values)
        dim_names  == dr_in.dims
        horiz_dims == Last2(dim_names)
        extra_dims == ButLast2(dim_names)
        coords == [c \in {"lon", "lat"} \cup SeqToSet(extra_dims) |->
                     IF c \in SeqToSet(extra_dims) THEN dr_in.coords[c]
                     ELSE IF c = "lon" THEN [dims |-> horiz_dims, values |-> self._lon_out]
                     ELSE [dims |-> horiz_dims, values |-> self._lat_out]]
    IN  IF o.err # "none"
        THEN [err |-> o.err, self |-> o.self, a |-> [dr_in EXCEPT !.values = o.indata],
              out |-> NoneValue]
        ELSE [err |-> "none", self |-> o.self, a |-> [dr_in EXCEPT !.values = o.indata],
              out |-> [type |-> "DataArray", values |-> o.out, dims |-> dim_names,
                       name |-> dr_in.name, coords |-> coords,
                       attrs |-> [k \in {"regrid_method"} |-> self.method]]]

__call__(self, a) ==
    IF a.type = "ndarray"
    THEN LET o == regrid_numpy(self, a.values)
         IN  [err |-> o.err, self |-> o.self, a |-> [a EXCEPT !.values = o.indata],
              out |-> IF o.err = "none" THEN ndarray(o.out) ELSE NoneValue]
    ELSE IF a.type = "DataArray"
    THEN regrid_dataarray(self, a)
    ELSE [err |-> "TypeError", self |-> self, a |-> a, out |-> NoneValue]

(* ------------------------- the callers' inputs ------------------------ *)

Methods == {"bilinear", "conservative", "nearest_s2d"}

LonVal(j) == 100 + j
LatVal(i) == i

Lon2D(ny, nx) == [shape |-> <<ny, nx>>, data |-> [k \in 1..(ny * nx) |-> LonVal(((k - 1) % nx) + 1)]]
Lat2D(ny, nx) == [shape |-> <<ny, nx>>, data |-> [k \in 1..(ny * nx) |-> LatVal(((k - 1) \div nx) + 1)]]
Lon1D(nx) == [shape |-> <<nx>>, data |-> [j \in 1..nx |-> LonVal(j)]]
Lat1D(ny) == [shape |-> <<ny>>, data |-> [i \in 1..ny |-> LatVal(i)]]

\* input grids: every (Ny, Nx) up to MaxN; output grids: the two thin shapes
\* and the square one
InShapes == (1..MaxN) \X (1..MaxN)
OutShapes == { <<MaxN, 1>>, <<1, MaxN>>, <<MaxN, MaxN>> }

\* curvilinear (2D) coordinates, with or without the cell corners
Grids2D(shapes) == { [lon |-> Lon2D(sh[1], sh[2]), lat |-> Lat2D(sh[1], sh[2]), bounds |-> b] :
                       sh \in shapes, b \in BOOLEAN }
\* rectilinear coordinates given as two 1D sequences
Grids1D(shapes) == { [lon |-> Lon1D(sh[2]), lat |-> Lat1D(sh[1]), bounds |-> FALSE] :
                       sh \in shapes }
\* one of lon / lat 1D, the other 2D
GridsMixed(shapes) ==
    { [lon |-> Lon1D(sh[2]), lat |-> Lat2D(sh[1], sh[2]), bounds |-> FALSE] : sh \in shapes }
    \cup { [lon |-> Lon2D(sh[1], sh[2]), lat |-> Lat1D(sh[1]), bounds |-> FALSE] : sh \in shapes }

\* the grids and method a caller constructs regridders for; cell corners are
\* only looked at for 'conservative', so only those scenes vary them
ScenesOver(ins, outs) ==
    { s \in [ds_in : Grids2D(ins) \cup Grids1D(ins) \cup GridsMixed(ins),
             ds_out : Grids2D(outs) \cup Grids1D(outs), method : Methods] :
        s.method # "conservative" => ~s.ds_in.bounds /\ ~s.ds_out.bounds }

Scenes == ScenesOver(InShapes, OutShapes)

\* the scenes of the weight-file lifecycle: one input and one output shape
LifeScenes == ScenesOver({ <<1, MaxN>> }, { <<MaxN, MaxN>> })

FileArgs == {NoneName, "weights.nc"}

\* what the engine may do: the outcome of a weight build, and its treatment of
\* coordinates that are not 2D
Engines == [build : {"ok", "fail", "fail_partial"}, grid : {"strict"}]

\* the engine of SpecApply: builds succeed
EnginesApply == [build : {"ok"}, grid : {"strict", "lenient"}]

EngineOk == [build |-> "ok", grid |-> "strict"]

\* the disk before the first construction: empty, or holding a weight file
\* that an earlier run left under the user's file name for other grids
InitDisks == { <<>>, [f \in {"weights.nc"} |-> WeightFile("bilinear", MaxN + 1, MaxN + 1)] }

\* leading shapes: n extra axes, the first of size b, the others of size 2
LeadShapes == { [i \in 1..n |-> IF i = 1 THEN b ELSE 2] : n \in 0..MaxExtra, b \in 1..MaxBatch }

arange(shape) == [shape |-> shape, data |-> [k \in 1..Prod(shape) |-> k]]

\* arrays on the regridder's input grid, with any leading shape
GoodArrays(self) == { arange(S \o <<self.Ny_in, self.Nx_in>>) : S \in LeadShapes }

\* arrays whose trailing two axes are not the input grid's
BadArrays(self) ==
    { arange(sh) : sh \in { <<>>, <<self.Nx_in>>, <<self.Ny_in * self.Nx_in>>,
                            <<self.Ny_in + 1, self.Nx_in>>, <<self.Ny_in, self.Nx_in + 1>>,
                            <<self.Nx_in + 1, self.Ny_in + 1>>,
                            <<self.Ny_in, self.Nx_in, 1>>, <<2, self.Ny_in + 1, self.Nx_in>> } }
    \cup (IF self.Ny_in # self.Nx_in THEN { arange(<<self.Nx_in, self.Ny_in>>) } ELSE {})

\* the dimension names of an n-dimensional DataArray: ("time", "dim2", ..., "y", "x")
DimsFor(n) ==
    [i \in 1..n |-> IF i = n THEN "x" ELSE IF i = n - 1 THEN "y"
                    ELSE IF i = 1 THEN "time" ELSE "dim" \o ToString(i)]

\* a DataArray around an array: a 1D coordinate for every leading dimension,
\* the input grid's lon and lat over the trailing two, a name and an attribute
DataArrayOf(a, ds) ==
    LET dims  == DimsFor(ndim(a))
        extra == ButLast2(dims)
        horiz == IF ndim(a) >= 2 /\ ndim(ds.lon) = 2 /\ Last2(a.shape) = ds.lon.shape
                 THEN {"lon", "lat"} ELSE {}
    IN  [type |-> "DataArray", values |-> a, dims |-> dims, name |-> "temp",
         coords |-> [c \in SeqToSet(extra) \cup horiz |->
                       IF c = "lon" THEN [dims |-> Last2(dims), values |-> ds.lon]
                       ELSE IF c = "lat" THEN [dims |-> Last2(dims), values |-> ds.lat]
                       ELSE LET ax == CHOOSE i \in DOMAIN dims : dims[i] = c
                            IN  [dims |-> <<c>>,
                                 values |-> [shape |-> <<a.shape[ax]>>,
                                             data |-> [k \in 1..a.shape[ax] |-> 1000 * ax + k]]]],
         attrs |-> [k \in {"units"} |-> "K"]]

\* anything that is neither a numpy array nor a DataArray
OtherValue == [NoneValue EXCEPT !.type = "list"]

Inputs(self, ds) ==
    LET arrays == GoodArrays(self) \cup BadArrays(self)
    IN  { ndarray(a) : a \in arrays } \cup { DataArrayOf(a, ds) : a \in arrays }
        \cup { OtherValue }

\* the few inputs the lifecycle's calls are made with
ProbeInputs(self, ds) ==
    LET good == arange(<<MaxBatch, self.Ny_in, self.Nx_in>>)
        bad  == arange(<<self.Ny_in + 1, self.Nx_in>>)
    IN  { ndarray(good), ndarray(bad), DataArrayOf(good, ds), OtherValue }

(* --------------------------- the state machine ------------------------ *)

\* what the last operation was given and what it did: its arguments, the
\* exception it raised, the calls and notices it made in order (log), for a
\* construction the object as far as __init__ set it up (self), for a call
\* the input as given (a0) and as it is afterwards (a), and the value returned
NoOp == [op |-> "none", periodic |-> FALSE, filename |-> NoneName, reuse_weights |-> FALSE,
         err |-> "none", log |-> <<>>, self |-> NoRegridder,
         a0 |-> NoneValue, a |-> NoneValue, out |-> NoneValue, text |-> ""]

\* --- Spec: the weight-file lifecycle. Regridders are constructed over and
\* over on one pair of grids, with every choice of periodic, filename,
\* reuse_weights and engine outcome; in between they are called, printed and
\* their weight file is cleaned.
Init ==
    /\ scene \in LifeScenes
    /\ fs \in InitDisks
    /\ rg = NoRegridder
    /\ last = NoOp

\* regridder = Regridder(ds_in, ds_out, method, periodic, filename, reuse_weights)
ConstructWith(filenames, reuses, engines) ==
    \E periodic \in BOOLEAN, filename \in filenames, reuse_weights \in reuses, eng \in engines :
        LET r == Regridder(scene.ds_in, scene.ds_out, scene.method, periodic, filename,
                           reuse_weights, fs, eng)
        IN  /\ fs' = r.fs
            /\ rg' = IF r.err = "none" THEN r.rg ELSE rg
            /\ last' = [NoOp EXCEPT !.op = "construct", !.periodic = periodic,
                                    !.filename = filename, !.reuse_weights = reuse_weights,
                                    !.err = r.err, !.log = r.log, !.self = r.rg]
            /\ UNCHANGED scene

Construct == ConstructWith(FileArgs, BOOLEAN, Engines)

\* regridder(a)
CallWith(inputs) ==
    /\ rg.live
    /\ \E a \in inputs :
        LET r == __call__(rg, a)
        IN  /\ rg' = r.self
            /\ last' = [NoOp EXCEPT !.op = "call", !.err = r.err, !.a0 = a, !.a = r.a,
                                    !.out = r.out]
    /\ UNCHANGED <<scene, fs>>

CallProbe == CallWith(ProbeInputs(rg, scene.ds_in))

\* regridder.clean_weight_file()
Clean ==
    /\ rg.live
    /\ LET r == clean_weight_file(rg, fs)
       IN  /\ fs' = r.fs
           /\ rg' = r.self
           /\ last' = [NoOp EXCEPT !.op = "clean", !.err = r.err, !.log = r.log]
    /\ UNCHANGED scene

\* str(regridder), repr(regridder)
Str ==
    /\ rg.live
    /\ rg' = rg
    /\ last' = [NoOp EXCEPT !.op = "str", !.text = __repr__(rg)]
    /\ UNCHANGED <<scene, fs>>

Next == Construct \/ CallProbe \/ Clean \/ Str

Spec == Init /\ [][Next]_vars

\* --- SpecApply: construction and application over all grids. On an empty
\* disk one regridder is constructed for every pair of grids and method (with
\* either periodic flag, with and without a file name, the engine strict or
\* lenient about coordinates that are not 2D) and then called with every input.
InitApply ==
    /\ scene \in Scenes
    /\ fs = <<>>
    /\ rg = NoRegridder
    /\ last = NoOp

ConstructFresh == ~rg.live /\ ConstructWith(FileArgs, {FALSE}, EnginesApply)

Call == CallWith(Inputs(rg, scene.ds_in))

NextApply == ConstructFresh \/ Call \/ Str

SpecApply == InitApply /\ [][NextApply]_vars

(* ------------------------------ the claims ---------------------------- *)

Has(log, e) == \E i \in DOMAIN log : log[i] = e

Count(log, e) == Cardinality({ i \in DOMAIN log : log[i] = e })

\* the first place of e in log
Pos(log, e) == CHOOSE i \in DOMAIN log : log[i] = e /\ \A j \in 1..(i - 1) : log[j] # e

\* a comes before b in log
Before(log, a, b) == Has(log, a) /\ Has(log, b) /\ Pos(log, a) < Pos(log, b)

\* the construction got as far as the weight-file step (both grids were built)
AtWeightStep(l) == l.op = "construct" /\ Has(l.log, "os.path.exists")

\* the weight file fits the regridder's grids
Loadable(c, self) == c.complete /\ c.n_rows = self.N_out /\ c.n_cols = self.N_in

\* what a step must satisfy for C1
C1_ReuseStep ==
    (AtWeightStep(last') /\ last'.reuse_weights /\ last'.self.filename \in DOMAIN fs)
    => /\ Count(last'.log, "esmf_regrid_build") = 0
       /\ ~Has(last'.log, "os.remove")
       /\ fs' = fs
       /\ Before(last'.log, "print:Reuse", "read_weights")
       /\ Count(last'.log, "read_weights") = 1
       /\ last'.self.N_in = size(scene.ds_in.lon)
       /\ last'.self.N_out = size(scene.ds_out.lon)
       /\ IF Loadable(fs[last'.self.filename], last'.self)
          THEN /\ last'.err = "none"
               /\ rg'.live /\ rg'.filename = last'.self.filename
               /\ rg'.A.shape = <<size(scene.ds_out.lon), size(scene.ds_in.lon)>>
               /\ rg'.A.trip = fs[rg'.filename].trip
          ELSE last'.err = "FormatError" /\ rg' = rg

\* C1: a construction that reaches the weight-file step with reuse_weights
\* true and a file present at the regridder's filename never calls
\* esmf_regrid_build, never removes or rewrites the file, and then reads the
\* weights from that file: the matrix loaded has shape (N_out, N_in) and the
\* file's triplets (the load fails only when the file does not fit the grids).
C1_ReuseSkipsBuild == [][C1_ReuseStep]_vars

C1_Witness ==
    /\ AtWeightStep(last) /\ last.reuse_weights /\ last.err = "none"
    /\ Has(last.log, "print:Reuse") /\ Has(last.log, "read_weights")
    /\ rg.live /\ rg.filename \in DOMAIN fs /\ rg.A.shape = <<rg.N_out, rg.N_in>>

\* what a step must satisfy for C2
C2_BuildStep ==
    (AtWeightStep(last') /\ ~last'.reuse_weights)
    => LET log == last'.log
           f   == last'.self.filename
       IN  /\ Count(log, "esmf_regrid_build") = 1
           /\ f \notin DOMAIN fs
              => /\ ~Has(log, "os.remove")
                 /\ Before(log, "print:Create", "esmf_regrid_build")
                 /\ \A g \in DOMAIN fs : g \in DOMAIN fs' /\ fs'[g] = fs[g]
           /\ f \in DOMAIN fs
              => /\ Count(log, "os.remove") = 1
                 /\ Before(log, "print:Overwrite", "os.remove")
                 /\ Before(log, "os.remove", "esmf_regrid_build")
           /\ Has(log, "read_weights")
              => /\ Before(log, "esmf_regrid_build", "esmf_regrid_finalize")
                 /\ Before(log, "esmf_regrid_finalize", "read_weights")
                 /\ last'.err = "none"
                 /\ fs'[f] = WeightFile(scene.method, size(scene.ds_out.lon),
                                        size(scene.ds_in.lon))
                 /\ rg'.A.trip = fs'[f].trip
           /\ last'.err = "none" <=> Has(log, "read_weights")

\* C2: a construction that reaches the weight-file step with reuse_weights
\* false calls esmf_regrid_build exactly once; with the file absent nothing is
\* removed; with the file present the overwrite notice comes first, then the
\* removal, then the build; the weights are read only after the build has
\* finished (esmf_regrid_finalize), from the file the build wrote.
C2_BuildOnceInOrder == [][C2_BuildStep]_vars

C2_Witness ==
    /\ AtWeightStep(last) /\ ~last.reuse_weights /\ last.err = "none"
    /\ Has(last.log, "print:Overwrite") /\ Has(last.log, "os.remove")
    /\ Has(last.log, "read_weights") /\ rg.live

\* what a step must satisfy for C10
C10_FailStep ==
    /\ (last'.op = "construct" /\ last'.err \in {"KeyError", "ShapeError", "ValueError"})
       => /\ ~Has(last'.log, "os.path.exists")
          /\ ~Has(last'.log, "os.remove")
          /\ fs' = fs
          /\ rg' = rg
    /\ (last'.op = "construct" /\ scene.method = "conservative"
        /\ ~(scene.ds_in.bounds /\ scene.ds_out.bounds))
       => last'.err \in {"KeyError", "ShapeError", "ValueError"}
    /\ (AtWeightStep(last') /\ ~last'.reuse_weights /\ last'.self.filename \in DOMAIN fs
        /\ last'.err = "ArtifactBuildError")
       => LET f == last'.self.filename
          IN  /\ Before(last'.log, "os.remove", "esmf_regrid_build")
              /\ Count(last'.log, "esmf_regrid_build") = 1
              /\ ~Has(last'.log, "read_weights")
              /\ f \in DOMAIN fs' => fs'[f] = PartialFile
              /\ \A g \in DOMAIN fs \ {f} : g \in DOMAIN fs' /\ fs'[g] = fs[g]
              /\ rg' = rg

\* C10: a construction whose grid normalisation fails (missing lon_b/lat_b for
\* 'conservative', coordinates that are not 2D) fails before the weight file is
\* looked at and leaves the disk as it was; a construction that finds the file,
\* has reuse_weights false and whose engine call fails has removed the old file
\* and does not put it back (what is left is no file or a half-written one),
\* raises the engine's error after a single engine call and reads no weights.
C10_NoRollback == [][C10_FailStep]_vars

C10_Witness ==
    /\ AtWeightStep(last) /\ ~last.reuse_weights /\ last.err = "ArtifactBuildError"
    /\ Has(last.log, "os.remove") /\ last.self.filename \notin DOMAIN fs

\* the default name, written out
C3_Name(shape_in, shape_out, method, peri) ==
    method \o "_" \o ToString(shape_in[1]) \o "x" \o ToString(shape_in[2])
    \o "_" \o ToString(shape_out[1]) \o "x" \o ToString(shape_out[2])
    \o (IF peri THEN "_peri.nc" ELSE ".nc")

C4_CleanStep ==
    last'.op = "clean"
    => /\ last'.err = "none"
       /\ rg.filename \notin DOMAIN fs'
       /\ DOMAIN fs' = DOMAIN fs \ {rg.filename}
       /\ \A g \in DOMAIN fs' : fs'[g] = fs[g]
       /\ rg.filename \in DOMAIN fs
          => Before(last'.log, "print:Remove", "os.remove")
       /\ rg.filename \notin DOMAIN fs
          => /\ last'.log = <<"os.path.exists", "print:AlreadyRemoved">>
             /\ fs' = fs
       /\ rg' = rg
       /\ \A a \in ProbeInputs(rg, scene.ds_in) :
             /\ __call__(rg', a).err = __call__(rg, a).err
             /\ __call__(rg', a).out = __call__(rg, a).out

\* C4: clean_weight_file removes the weight file when it is there and only
\* gives a notice, without failing, when it is not; it changes no other file,
\* no field of the regridder and not the weights in memory, so the regridder
\* returns for every input what it returned before.
C4_CleanKeepsRegridder == [][C4_CleanStep]_vars

C4_Witness ==
    /\ last.op = "clean" /\ Has(last.log, "os.remove")
    /\ rg.live /\ rg.filename \notin DOMAIN fs
    /\ \E a \in ProbeInputs(rg, scene.ds_in) : __call__(rg, a).err = "none"

\* what a step must satisfy for C5
C5_FrameStep ==
    last'.op \in {"call", "str", "clean"}
    => /\ rg' = rg
       /\ rg'.method = scene.method
       /\ rg'.periodic \in BOOLEAN /\ (scene.method = "conservative" => ~rg'.periodic)
       /\ <<rg'.Ny_in, rg'.Nx_in>> = scene.ds_in.lon.shape
       /\ <<rg'.Ny_out, rg'.Nx_out>> = scene.ds_out.lon.shape
       /\ rg'._lon_out = scene.ds_out.lon /\ rg'._lat_out = scene.ds_out.lat
       /\ rg'.A.shape = <<rg'.N_out, rg'.N_in>>
       /\ last'.op # "clean" => fs' = fs
       /\ last'.op = "call" => last'.a = last'.a0

\* C5: calling the regridder (on an array or a labelled array, with or without
\* success), str/repr and clean_weight_file leave every field of the regridder
\* at the value construction gave it and do not modify the input; of these
\* only clean_weight_file changes which files exist.
C5_ImmutableAfterConstruction == [][C5_FrameStep]_vars

C5_Witness ==
    /\ last.op = "call" /\ last.err = "none" /\ last.a0.type = "DataArray"
    /\ last.a = last.a0 /\ rg.live

\* 1D lon and lat replaced by their 2D mesh
Meshed(ds) ==
    IF ndim(ds.lon) = 1 /\ ndim(ds.lat) = 1
    THEN [ds EXCEPT !.lon = as_2d_mesh(ds.lon, ds.lat).lon,
                    !.lat = as_2d_mesh(ds.lon, ds.lat).lat]
    ELSE ds

\* C6: a construction given lon and lat as 1D sequences ends as the
\* construction given their 2D mesh of shape (Ny, Nx) does (same outcome, same
\* grid shapes, N_in, N_out and filename); with one of lon/lat 1D and the
\* other 2D it fails with a shape error.  (Constructions here start from an
\* empty disk.)
C6_MeshedLikeTwoD ==
    last.op = "construct"
    => /\ (ndim(scene.ds_in.lon) = ndim(scene.ds_in.lat)
           /\ ndim(scene.ds_out.lon) = ndim(scene.ds_out.lat))
          => LET r == Regridder(Meshed(scene.ds_in), Meshed(scene.ds_out), scene.method,
                                last.periodic, last.filename, last.reuse_weights,
                                <<>>, EngineOk)
             IN  /\ last.err = r.err
                 /\ r.err = "none" => rg = r.rg /\ fs = r.fs
       /\ ndim(scene.ds_in.lon) # ndim(scene.ds_in.lat)
          => last.err \in {"ShapeError", "ValueError"}

\* C7: called with an array whose trailing two axes are (Ny_in, Nx_in) and
\* whose leading shape is S (possibly empty), the regridder returns an array of
\* shape S + (Ny_out, Nx_out).
C7_OutputShape ==
    (/\ last.op = "call" /\ last.a0.type \in {"ndarray", "DataArray"}
     /\ ndim(last.a0.values) >= 2
     /\ Last2(last.a0.values.shape) = scene.ds_in.lon.shape)
    => /\ last.err = "none"
       /\ last.out.type = last.a0.type
       /\ last.out.values.shape = ButLast2(last.a0.values.shape) \o scene.ds_out.lon.shape
       /\ Len(last.out.values.data) = Prod(last.out.values.shape)

C7_Witness ==
    /\ last.op = "call" /\ last.err = "none" /\ last.a0.type = "ndarray"
    /\ last.a0.values.shape = <<MaxBatch, 2, 1, MaxN>>
    /\ last.out.values.shape = <<MaxBatch, 2, MaxN, 1>>

\* C8: called with data whose trailing two axes are not (Ny_in, Nx_in), data
\* of fewer than two dimensions included, the regridder fails on its shape
\* assertion and returns nothing, for arrays and labelled arrays alike.
C8_ShapeMismatchFails ==
    (/\ last.op = "call" /\ last.a0.type \in {"ndarray", "DataArray"}
     /\ \/ ndim(last.a0.values) < 2
        \/ Last2(last.a0.values.shape) # scene.ds_in.lon.shape)
    => /\ last.err = "AssertionError"
       /\ last.out = NoneValue

C8_Witness ==
    /\ last.op = "call" /\ last.err = "AssertionError" /\ last.a0.type = "DataArray"
    /\ ndim(last.a0.values) = 1 /\ size(last.a0.values) = rg.N_in /\ rg.N_in > 1

\* C9: called with a labelled array of the right shape the regridder returns
\* a labelled array with the input's dimension names and name, the output
\* grid's lon and lat as coordinates over the trailing two dimension names,
\* the input's coordinate of every leading dimension unchanged, and the
\* attribute regrid_method = the regridder's method; an array gives an array;
\* any other type fails with TypeError.
C9_Labelled ==
    last.op = "call"
    => /\ (last.a0.type = "DataArray" /\ last.err = "none")
          => /\ last.out.type = "DataArray"
             /\ last.out.dims = last.a0.dims
             /\ last.out.name = last.a0.name
             /\ last.out.coords["lon"] = [dims |-> Last2(last.a0.dims),
                                          values |-> scene.ds_out.lon]
             /\ last.out.coords["lat"] = [dims |-> Last2(last.a0.dims),
                                          values |-> scene.ds_out.lat]
             /\ \A d \in SeqToSet(ButLast2(last.a0.dims)) :
                   last.out.coords[d] = last.a0.coords[d]
             /\ last.out.attrs["regrid_method"] = scene.method
             /\ last.out.values = __call__(rg, ndarray(last.a0.values)).out.values
       /\ (last.a0.type = "DataArray" /\ Last2(last.a0.values.shape) = <<rg.Ny_in, rg.Nx_in>>)
          => last.err = "none"
       /\ (last.a0.type = "ndarray" /\ last.err = "none")
          => last.out.type = "ndarray" /\ last.out.dims = <<>> /\ last.out.coords = <<>>
       /\ last.a0.type \notin {"ndarray", "DataArray"}
          => last.err = "TypeError" /\ last.out = NoneValue

C9_Witness ==
    /\ last.op = "call" /\ last.err = "none" /\ last.a0.type = "DataArray"
    /\ Len(last.a0.dims) = 2 + MaxExtra
    /\ last.out.coords["lon"].values # last.a0.coords["lon"].values
    /\ last.out.coords["time"] = last.a0.coords["time"]

====
